---- MODULE Spec2Model ----
(***************************************************************************)
(* Model of vs/editor/contrib/suggest/browser/suggest.ts: the suggest      *)
(* state machine, the Word continuation test, the trigger-character        *)
(* listener, the word (quick suggest) listener and the SuggestController.  *)
(***************************************************************************)
EXTENDS Integers, Sequences, FiniteSets, TLC

VARIABLES
    currentState,           \* suggestStateMachine.currentState
    lastCall,               \* the last call made on the state machine and how it ended
    steps,                  \* number of state machine calls made by the driver
    wordA, wordB, wordRes,  \* inputs of Word.isContinuation and <<its result>>
    config,                 \* editor.getConfiguration(): readOnly and contribInfo
    editorModel,            \* editor.getModel(): "none" or the model's language mode
    position,               \* editor.getPosition()
    registry,               \* SuggestRegistry: the registered providers, in registration order
    listeners,              \* subscriptions active at the editor, registry, model and widget
    localDispose,           \* TriggerCharacterListener._localDispose: typing listener per character
    quickSuggestDelay,      \* WordListener._quickSuggestDelay
    currentWord,            \* WordListener._currentWord: {} or {word}
    currentTriggerHandle,   \* WordListener._currentTriggerHandle: 0 or a timer handle
    timers,                 \* the host's pending setTimeout callbacks
    toDispose,              \* SuggestController.toDispose
    widget, model,          \* SuggestController.widget / .model: "alive" or "null"
    disposeCalls,           \* how often dispose() was called on each disposable
    disposals,              \* number of SuggestController.dispose() calls
    fetches,                \* the promises provideSuggestionItems returned
    last                    \* the last handler run and the calls it made

fsmVars == <<currentState, lastCall, steps>>
wordVars == <<wordA, wordB, wordRes>>
envVars == <<config, editorModel, position, registry>>
tclVars == <<localDispose>>
wlVars == <<quickSuggestDelay, currentWord, currentTriggerHandle, timers>>
ctrlVars == <<listeners, toDispose, widget, model, disposeCalls, disposals>>
progVars == <<envVars, tclVars, wlVars, ctrlVars, fetches, last>>
vars == <<fsmVars, wordVars, progVars>>

\* JavaScript's undefined / an absent value
undefined == "undefined"

-----------------------------------------------------------------------------
(* namespace suggestStateMachine                                            *)

State ==
    { "Idle", "LoadingAuto", "ResultAuto", "ResultAutoIncomplete", "LoadingExplict",
      "ResultExplicit", "ResultExplicitIncomplete", "ResultExplicitFroozen",
      "ResultExplicitEmpty" }

Message ==
    { "Cancel", "Explicit", "TriggerCharacterTyped", "WordStarted", "WordEnded",
      "WordContinued", "Result", "ResultEmpty", "ResultIncomple" }

fmaExplicitEmptyToIdle ==
    [ Idle |->
        [ Explicit |-> "LoadingExplict",
          TriggerCharacterTyped |-> "LoadingAuto",
          WordStarted |-> "LoadingAuto" ],
      LoadingAuto |->
        [ ResultEmpty |-> "Idle",
          ResultIncomple |-> "ResultAutoIncomplete",
          Result |-> "ResultAuto" ],
      ResultAuto |->
        [ WordContinued |-> "ResultAuto",
          ResultEmpty |-> "Idle" ],
      ResultAutoIncomplete |->
        [ WordContinued |-> "LoadingAuto" ],
      LoadingExplict |->
        [ ResultEmpty |-> "ResultExplicitEmpty",
          ResultIncomple |-> "ResultExplicitIncomplete",
          Result |-> "ResultExplicit" ],
      ResultExplicit |->
        [ WordContinued |-> "ResultExplicit",
          ResultEmpty |-> "Idle" ] ]

\* fma[State.X] = { ... }: only six states have a row
fma ==
    [ Idle |->
        [ Explicit |-> "LoadingExplict",
          TriggerCharacterTyped |-> "LoadingAuto",
          WordStarted |-> "LoadingAuto" ],
      LoadingAuto |->
        [ ResultEmpty |-> "Idle",
          ResultIncomple |-> "ResultAutoIncomplete",
          Result |-> "ResultAuto" ],
      ResultAuto |->
        [ WordContinued |-> "ResultAuto",
          ResultEmpty |-> "Idle" ],
      ResultAutoIncomplete |->
        [ WordContinued |-> "LoadingAuto" ],
      LoadingExplict |->
        [ ResultEmpty |-> "ResultExplicitEmpty",
          ResultIncomple |-> "ResultExplicitIncomplete",
          Result |-> "ResultExplicit" ],
      ResultExplicit |->
        [ WordContinued |-> "ResultExplicit",
          ResultEmpty |-> "ResultExplicitFroozen" ] ]

fmaWildcardWithoutTrigger ==
    [ Cancel |-> "Idle",
      WordEnded |-> "Idle" ]

\* fma[-1], the "* ->" row
fmaWildcard ==
    [ Cancel |-> "Idle",
      WordEnded |-> "Idle",
      TriggerCharacterTyped |-> "LoadingAuto" ]

\* table[key]: a property read of an object, undefined when the key is absent
Lookup(table, key) ==
    IF key \in DOMAIN table THEN table[key] ELSE undefined

advanceAssignsFirst(state, message) ==
    IF state \notin DOMAIN fma
    THEN [ outcome |-> "TypeError", returned |-> undefined, next |-> state ]
    ELSE LET own == Lookup(fma[state], message)
             result == IF own = undefined THEN Lookup(fmaWildcard, message) ELSE own
         IN  IF result = undefined
             THEN [ outcome |-> "IllegalTransition", returned |-> undefined,
                    next |-> undefined ]
             ELSE [ outcome |-> "ok", returned |-> result, next |-> result ]

\* advance(message) called in state `state`: how the call ends, what it returns
\* and the state it leaves.  fma[currentState] is undefined for a state without
\* a row, and reading [message] of undefined throws a TypeError before the
\* wildcard row is consulted.
advance(state, message) ==
    IF state \notin DOMAIN fma
    THEN [ outcome |-> "TypeError", returned |-> undefined, next |-> state ]
    ELSE LET own == Lookup(fma[state], message)
             result == IF own = undefined THEN Lookup(fmaWildcard, message) ELSE own
         IN  IF result = undefined
             THEN [ outcome |-> "IllegalTransition", returned |-> undefined, next |-> state ]
             ELSE [ outcome |-> "ok", returned |-> result, next |-> result ]

\* let currentState = State.Idle
InitialState == "Idle"

NoCall == [ op |-> "none", from |-> InitialState, message |-> undefined,
            outcome |-> "ok", returned |-> undefined ]

-----------------------------------------------------------------------------
(* class Word                                                               *)

MaxLine == 2
MaxColumn == 3
MaxLen == 2
Alphabet == { "a", "b" }

Texts == UNION { [1..n -> Alphabet] : n \in 0..MaxLen }

Words ==
    [ line : 1..MaxLine, startColumn : 1..MaxColumn, endColumn : 1..MaxColumn,
      value : Texts ]

\* String.prototype.indexOf: the first 0-based index at which `search` occurs
\* in `str`, or -1
IndexOf(str, search) ==
    LET at == { i \in 0..(Len(str) - Len(search)) :
                  SubSeq(str, i + 1, i + Len(search)) = search }
    IN  IF at = {} THEN -1 ELSE CHOOSE i \in at : \A j \in at : i <= j

isContinuationGe(this, word) ==
    IF \/ this.line # word.line
       \/ this.startColumn # word.startColumn
       \/ this.endColumn > word.endColumn
    THEN FALSE
    ELSE IndexOf(word.value, this.value) = 0

\* this.isContinuation(word)
isContinuation(this, word) ==
    IF \/ this.line # word.line
       \/ this.startColumn # word.startColumn
       \/ this.endColumn >= word.endColumn
    THEN FALSE
    ELSE IndexOf(word.value, this.value) = 0

-----------------------------------------------------------------------------
(* The editor, the provider registry and the providers                      *)

TriggerChars == { ".", ":" }

EditorModels == { "none", "ts", "md" }

\* the providers that can be registered: the language each applies to and its
\* optional triggerCharacters ({} when the provider declares none)
providers ==
    [ P1 |-> [ language |-> "ts", triggerCharacters |-> { <<".">> } ],
      P2 |-> [ language |-> "ts", triggerCharacters |-> { <<":", ".">> } ],
      P3 |-> [ language |-> "md", triggerCharacters |-> { <<".">> } ],
      P4 |-> [ language |-> "ts", triggerCharacters |-> {} ] ]

ProviderIds == DOMAIN providers

MaxProviders == 3

\* quickSuggestionsDelay values: a number or NaN
Delay(n) == [ nan |-> FALSE, n |-> n ]
NaN == [ nan |-> TRUE, n |-> 0 ]

Configs ==
    [ readOnly : BOOLEAN, suggestOnTriggerCharacters : BOOLEAN,
      quickSuggestions : BOOLEAN,
      quickSuggestionsDelay : { Delay(-1), Delay(5), Delay(20), NaN } ]

\* the editor's default options
DefaultConfig ==
    [ readOnly |-> FALSE, suggestOnTriggerCharacters |-> TRUE,
      quickSuggestions |-> TRUE, quickSuggestionsDelay |-> Delay(10) ]

Registries ==
    { r \in UNION { [1..n -> ProviderIds] : n \in 0..MaxProviders } :
        \A i, j \in 1..Len(r) : i # j => r[i] # r[j] }

\* SuggestRegistry.all(model): the registered providers applicable to the
\* model, in registration order
SuggestRegistryAll(reg, m) ==
    SelectSeq(reg, LAMBDA id : providers[id].language = m)

-----------------------------------------------------------------------------
(* class TriggerCharacterListener                                           *)

TclSubscriptions ==
    { "tcl.onDidChangeConfiguration", "tcl.onDidChangeModel",
      "tcl.onDidChangeModelMode", "tcl.SuggestRegistry.onDidChange" }

\* no typing listener: the bucket of a character is <<>> when the character
\* has no entry in providerByCh
NoTypingListeners == [ ch \in TriggerChars |-> <<>> ]

RECURSIVE AddTriggerCharactersOverwrite(_, _, _)
AddTriggerCharactersOverwrite(providerByCh, provider, chars) ==
    IF chars = <<>>
    THEN providerByCh
    ELSE AddTriggerCharactersOverwrite(
             [ providerByCh EXCEPT ![Head(chars)] = << provider >> ],
             provider, Tail(chars))

\* for (const ch of provider.triggerCharacters) { ... }
RECURSIVE AddTriggerCharacters(_, _, _)
AddTriggerCharacters(providerByCh, provider, chars) ==
    IF chars = <<>>
    THEN providerByCh
    ELSE AddTriggerCharacters(
             [ providerByCh EXCEPT ![Head(chars)] = Append(@, provider) ],
             provider, Tail(chars))

\* for (const provider of SuggestRegistry.all(model)) { ... }
RECURSIVE BuildProviderByCh(_, _)
BuildProviderByCh(providerByCh, all) ==
    IF all = <<>>
    THEN providerByCh
    ELSE LET provider == Head(all)
             declared == providers[provider].triggerCharacters
         IN  BuildProviderByCh(
                 IF declared = {}
                 THEN providerByCh
                 ELSE AddTriggerCharacters(providerByCh, provider,
                                           CHOOSE cs \in declared : TRUE),
                 Tail(all))

\* _update(): the typing listeners registered afterwards
Update(cfg, m, reg) ==
    IF cfg.readOnly \/ m = "none" \/ ~cfg.suggestOnTriggerCharacters
    THEN NoTypingListeners
    ELSE BuildProviderByCh(NoTypingListeners, SuggestRegistryAll(reg, m))

UpdateOnKeepsOld(event, cfg, m, reg) ==
    IF event \in listeners
    THEN [ ch \in TriggerChars |->
             IF Update(cfg, m, reg)[ch] # << >>
             THEN Update(cfg, m, reg)[ch]
             ELSE localDispose[ch] ]
    ELSE localDispose

\* _update() as run by a subscription of the listener, when still subscribed
UpdateOn(event, cfg, m, reg) ==
    IF event \in listeners THEN Update(cfg, m, reg) ELSE localDispose

-----------------------------------------------------------------------------
(* class WordListener                                                       *)

WlSubscriptions ==
    { "wl.onDidChangeConfiguration", "wl.onDidChangeCursorSelection" }

Digits == { "1" }

\* isNaN(Number(text)) for a text of letters and digits
IsNaNNumber(text) == \E i \in 1..Len(text) : text[i] \notin Digits

\* Word.strictUntilPosition(editor, position), given what
\* getWordAtPosition(position) returns: {} or {word}
strictUntilPosition(wordAt, pos) ==
    { [ line |-> pos.lineNumber, startColumn |-> w.startColumn,
        endColumn |-> w.endColumn, value |-> w.word ] :
      w \in { x \in wordAt : x.endColumn = pos.column /\ IsNaNNumber(x.word) } }

HandleConfigurationChangeNegative(cfg) ==
    IF ~cfg.quickSuggestions
    THEN -1
    ELSE LET value == cfg.quickSuggestionsDelay
         IN  IF value.nan THEN 10
             ELSE IF value.n < 0 THEN -1
             ELSE IF value.n < 10 THEN 10 ELSE value.n

\* _handleConfigurationChange(): the new _quickSuggestDelay
HandleConfigurationChange(cfg) ==
    IF ~cfg.quickSuggestions
    THEN -1
    ELSE LET value == cfg.quickSuggestionsDelay
         IN  IF value.nan \/ value.n < 10 THEN 10 ELSE value.n

ClearTimeoutNothing(pending, handle) == pending

\* clearTimeout(handle)
ClearTimeout(pending, handle) == { t \in pending : t.handle # handle }

\* a handle setTimeout has not handed out to anything still holding one
FreshHandle ==
    CHOOSE h \in 1..(Cardinality(timers) + 2) :
        h \notin { t.handle : t \in timers } \cup { currentTriggerHandle }

MaxTimers == 2

-----------------------------------------------------------------------------
(* class SuggestController                                                  *)

ControllerSubscriptions ==
    << "model.onDidTrigger", "model.onDidSuggest", "model.onDidCancel",
       "widget.onDidSelect", "model.onDidAccept" >>

\* this.toDispose after the constructor
ConstructedToDispose ==
    ControllerSubscriptions \o << "TriggerCharacterListener", "WordListener" >>

Disposables ==
    { ConstructedToDispose[i] : i \in 1..Len(ConstructedToDispose) }
        \cup { "widget", "model" }

Call(name, arg) == [ call |-> name, arg |-> arg ]

\* cancelSuggestWidget(): the calls it makes
cancelSuggestWidget ==
    << Call("console.log", "CANCEL") >>
        \o (IF widget # "null" THEN << Call("widget.cancel", "") >> ELSE << >>)

\* trigger(position, auto, promise): the calls it makes before it returns and
\* the calls its handlers make when the promise is fulfilled or rejected.  The
\* promise gets a fulfilment handler only, so a rejection reaches no handler.
trigger(pos, auto, promise) ==
    [ sync |-> << >>,
      onFulfilled |-> << Call("console.log", "NEW") >>,
      onRejected |-> << Call("unhandled rejection", "") >> ]

TriggerCall(pos, auto, promise) ==
    Call("trigger", [ position |-> pos, auto |-> auto, promise |-> promise ])

\* provideSuggestionItems(model, position, snippets, onlyFrom?): onlyFrom is {}
\* when the argument is not passed
ProvideCall(pos, onlyFrom) ==
    Call("provideSuggestionItems", [ position |-> pos, onlyFrom |-> onlyFrom ])

MaxFetches == 2
MaxDisposals == 2

-----------------------------------------------------------------------------
(* The events the editor can deliver                                        *)

CursorLines == { 1, 2 }
CursorColumns == { 1, 2, 3 }
WordStarts == { 1, 2 }

\* the words getWordAtPosition can return
CursorTexts == { <<"a">>, <<"a", "b">>, <<"b">>, <<"1">> }

\* getWordAtPosition(pos): {} or a word that touches the position
WordsAt(pos) ==
    { {} } \cup
    { { [ word |-> x[1], startColumn |-> x[2], endColumn |-> x[2] + Len(x[1]) ] } :
        x \in { y \in CursorTexts \X WordStarts :
                  y[2] <= pos.column /\ pos.column <= y[2] + Len(y[1]) } }

\* ICursorSelectionChangedEvent
CursorEvents ==
    [ selectionEmpty : BOOLEAN, source : { "keyboard", "mouse" },
      reason : { "NotSet", "Explicit" },
      lineNumber : CursorLines, column : CursorColumns ]

-----------------------------------------------------------------------------
(* The program: one action per event handler                                *)

Handled(op, arg, calls) == [ op |-> op, arg |-> arg, calls |-> calls ]

\* the state after new SuggestController(editor, ...), for an editor in
\* configuration cfg, with model m, and registry reg
ProgInit(cfgs, models, regs) ==
    /\ config \in cfgs
    /\ editorModel \in models
    /\ registry \in regs
    /\ position = [ lineNumber |-> 1, column |-> 1 ]
    /\ listeners = { ControllerSubscriptions[i] : i \in 1..Len(ControllerSubscriptions) }
                       \cup TclSubscriptions \cup WlSubscriptions
    /\ localDispose = Update(config, editorModel, registry)
    /\ quickSuggestDelay = HandleConfigurationChange(config)
    /\ currentWord = {}
    /\ currentTriggerHandle = 0
    /\ timers = {}
    /\ toDispose = ConstructedToDispose
    /\ widget = "alive"
    /\ model = "alive"
    /\ disposeCalls = [ d \in Disposables |-> 0 ]
    /\ disposals = 0
    /\ fetches = << >>
    /\ last = Handled("constructor", 0, << >>)

\* editor.onDidChangeConfiguration: _update() and _handleConfigurationChange()
ChangeConfiguration(cfg) ==
    /\ config' = cfg
    /\ localDispose' = UpdateOn("tcl.onDidChangeConfiguration", cfg, editorModel, registry)
    /\ quickSuggestDelay' =
           IF "wl.onDidChangeConfiguration" \in listeners
           THEN HandleConfigurationChange(cfg)
           ELSE quickSuggestDelay
    /\ last' = Handled("onDidChangeConfiguration", 0, << >>)
    /\ UNCHANGED <<editorModel, position, registry, currentWord, currentTriggerHandle,
                   timers, ctrlVars, fetches, fsmVars, wordVars>>

\* editor.onDidChangeModel: _update()
ChangeModel(m) ==
    /\ m # editorModel
    /\ editorModel' = m
    /\ localDispose' = UpdateOn("tcl.onDidChangeModel", config, m, registry)
    /\ last' = Handled("onDidChangeModel", 0, << >>)
    /\ UNCHANGED <<config, position, registry, wlVars, ctrlVars, fetches, fsmVars, wordVars>>

\* editor.onDidChangeModelMode: _update()
ChangeModelMode(m) ==
    /\ editorModel # "none"
    /\ m \notin { "none", editorModel }
    /\ editorModel' = m
    /\ localDispose' = UpdateOn("tcl.onDidChangeModelMode", config, m, registry)
    /\ last' = Handled("onDidChangeModelMode", 0, << >>)
    /\ UNCHANGED <<config, position, registry, wlVars, ctrlVars, fetches, fsmVars, wordVars>>

\* SuggestRegistry.register(...), then SuggestRegistry.onDidChange: _update()
RegisterProvider(id) ==
    /\ Len(registry) < MaxProviders
    /\ \A i \in 1..Len(registry) : registry[i] # id
    /\ registry' = Append(registry, id)
    /\ localDispose' = UpdateOn("tcl.SuggestRegistry.onDidChange", config, editorModel, registry')
    /\ last' = Handled("SuggestRegistry.onDidChange", 0, << >>)
    /\ UNCHANGED <<config, editorModel, position, wlVars, ctrlVars, fetches, fsmVars, wordVars>>

\* disposing of a registration, then SuggestRegistry.onDidChange: _update()
UnregisterProvider(i) ==
    /\ i \in 1..Len(registry)
    /\ registry' = SubSeq(registry, 1, i - 1) \o SubSeq(registry, i + 1, Len(registry))
    /\ localDispose' = UpdateOn("tcl.SuggestRegistry.onDidChange", config, editorModel, registry')
    /\ last' = Handled("SuggestRegistry.onDidChange", 0, << >>)
    /\ UNCHANGED <<config, editorModel, position, wlVars, ctrlVars, fetches, fsmVars, wordVars>>

\* the calls of the typing listener of character ch, whose bucket is `value`
TypingListenerCalls(value, pos, r, promise) ==
    << ProvideCall(pos, { value }),
       Call("advance", r.outcome) >>
        \o (IF r.outcome = "ok"
            THEN << TriggerCall(pos, TRUE, promise) >> \o trigger(pos, TRUE, promise).sync
            ELSE << >>)

\* the typing listener registered for ch runs
TypeCharacter(ch) ==
    /\ localDispose[ch] # << >>
    /\ Len(fetches) < MaxFetches
    /\ LET pos == position
           promise == Len(fetches) + 1
           r == advance(currentState, "TriggerCharacterTyped")
       IN  /\ currentState' = r.next
           /\ lastCall' = [ op |-> "advance", from |-> currentState,
                            message |-> "TriggerCharacterTyped",
                            outcome |-> r.outcome, returned |-> r.returned ]
           /\ fetches' = Append(fetches, [ status |-> "pending",
                                           triggered |-> r.outcome = "ok" ])
           /\ last' = Handled("typing", [ ch |-> ch, promise |-> promise ],
                              TypingListenerCalls(localDispose[ch], pos, r, promise))
    /\ UNCHANGED <<steps, wordVars, envVars, tclVars, wlVars, ctrlVars>>

CursorPosition(e) == [ lineNumber |-> e.lineNumber, column |-> e.column ]

\* _handleCursorChange(e): the first test
NotQualifying(e) ==
    \/ quickSuggestDelay < 0
    \/ ~e.selectionEmpty
    \/ e.source # "keyboard"
    \/ e.reason # "NotSet"

\* _handleCursorChange(e): whether a delayed fetch is scheduled for word
StartsNewWord(word) ==
    \/ currentWord = {}
    \/ \E cw \in currentWord : ~isContinuation(cw, word)

\* what a run of the cursor change handler saw: the event and the word
\* strictUntilPosition returned ({} when it was not asked or returned none)
Seen(e, found) == [ e |-> e, found |-> found ]

\* clearTimeout(handle); setTimeout(callback, delay): the calls, with whether
\* the cleared handle was that of a pending timer
ScheduleCalls(pending, handle, delay) ==
    << Call("clearTimeout", [ handle |-> handle,
                              pending |-> handle \in { t.handle : t \in pending } ]),
       Call("setTimeout", delay) >>

ScheduleWithoutClear(pending, handle, fresh, pos, delay) ==
    pending \cup { [ handle |-> fresh, position |-> pos, delay |-> delay ] }

\* the host's timers after clearTimeout(handle); setTimeout(callback, delay)
Schedule(pending, handle, fresh, pos, delay) ==
    ClearTimeout(pending, handle)
        \cup { [ handle |-> fresh, position |-> pos, delay |-> delay ] }

\* editor.onDidChangeCursorSelection: _handleCursorChange(e).  The handler
\* asks the model for the word at the position only when the change qualifies.
CursorChange(e) ==
    /\ editorModel # "none"
    /\ Cardinality(timers) <= MaxTimers
    /\ position' = CursorPosition(e)
    /\ IF "wl.onDidChangeCursorSelection" \notin listeners
       THEN /\ last' = Handled("not handled", 0, << >>)
            /\ UNCHANGED wlVars
       ELSE IF NotQualifying(e)
       THEN /\ last' = Handled("onDidChangeCursorSelection", Seen(e, {}),
                               cancelSuggestWidget)
            /\ UNCHANGED wlVars
       ELSE \E wordAt \in WordsAt(CursorPosition(e)) :
            LET found == strictUntilPosition(wordAt, CursorPosition(e))
            IN  IF found = {}
                THEN /\ currentWord' = {}
                     /\ last' = Handled("onDidChangeCursorSelection", Seen(e, {}),
                                        cancelSuggestWidget)
                     /\ UNCHANGED <<quickSuggestDelay, currentTriggerHandle, timers>>
                ELSE LET word == CHOOSE w \in found : TRUE
                     IN  /\ IF StartsNewWord(word)
                            THEN /\ timers' = Schedule(timers, currentTriggerHandle,
                                                       FreshHandle, CursorPosition(e),
                                                       quickSuggestDelay)
                                 /\ currentTriggerHandle' = FreshHandle
                                 /\ last' = Handled("onDidChangeCursorSelection",
                                                    Seen(e, found),
                                                    ScheduleCalls(timers, currentTriggerHandle,
                                                                  quickSuggestDelay))
                            ELSE /\ last' = Handled("onDidChangeCursorSelection",
                                                    Seen(e, found), << >>)
                                 /\ UNCHANGED <<currentTriggerHandle, timers>>
                         /\ currentWord' = { word }
                         /\ UNCHANGED quickSuggestDelay
    /\ UNCHANGED <<config, editorModel, registry, tclVars, ctrlVars, fetches,
                   fsmVars, wordVars>>

\* the callback given to setTimeout runs
TimerFires(t) ==
    /\ t \in timers
    /\ Len(fetches) < MaxFetches
    /\ timers' = timers \ { t }
    /\ LET promise == Len(fetches) + 1
       IN  /\ fetches' = Append(fetches, [ status |-> "pending", triggered |-> TRUE ])
           /\ last' = Handled("timeout", [ timer |-> t, promise |-> promise ],
                              << ProvideCall(t.position, {}),
                                 TriggerCall(t.position, TRUE, promise) >>
                                  \o trigger(t.position, TRUE, promise).sync)
    /\ UNCHANGED <<envVars, tclVars, quickSuggestDelay, currentWord, currentTriggerHandle,
                   ctrlVars, fsmVars, wordVars>>

\* the promise of fetch i is fulfilled: the handler trigger() attached runs
FetchFulfilled(i) ==
    /\ i \in 1..Len(fetches)
    /\ fetches[i].status = "pending"
    /\ fetches' = [ fetches EXCEPT ![i].status = "fulfilled" ]
    /\ last' = Handled("fulfilled", i,
                       IF fetches[i].triggered
                       THEN trigger(position, TRUE, i).onFulfilled
                       ELSE << >>)
    /\ UNCHANGED <<envVars, tclVars, wlVars, ctrlVars, fsmVars, wordVars>>

\* the promise of fetch i is rejected or cancelled
FetchRejected(i) ==
    /\ i \in 1..Len(fetches)
    /\ fetches[i].status = "pending"
    /\ fetches' = [ fetches EXCEPT ![i].status = "rejected" ]
    /\ last' = Handled("rejected", i,
                       IF fetches[i].triggered
                       THEN trigger(position, TRUE, i).onRejected
                       ELSE << >>)
    /\ UNCHANGED <<envVars, tclVars, wlVars, ctrlVars, fsmVars, wordVars>>

\* dispose(this.toDispose): the disposables dispose() is called on
Disposed(array) == { array[i] : i \in 1..Len(array) }

\* this.toDispose = dispose(this.toDispose): dispose(array) returns []
DisposeArray(array) == << >>

WordListenerDisposeNoClear(pending) == pending

\* WordListener.dispose(): the host's timers afterwards
WordListenerDispose(pending) == ClearTimeout(pending, currentTriggerHandle)

\* TriggerCharacterListener.dispose(): the typing listeners left registered
TriggerCharacterListenerDispose(typing) == NoTypingListeners

\* SuggestController.dispose()
Dispose ==
    /\ disposals < MaxDisposals
    /\ disposals' = disposals + 1
    /\ LET released == Disposed(toDispose)
           tcl == "TriggerCharacterListener" \in released
           wl == "WordListener" \in released
       IN  /\ listeners' =
                  ((listeners \ released)
                      \ (IF tcl THEN TclSubscriptions ELSE {}))
                      \ (IF wl THEN WlSubscriptions ELSE {})
           /\ localDispose' =
                  IF tcl THEN TriggerCharacterListenerDispose(localDispose) ELSE localDispose
           /\ timers' = IF wl THEN WordListenerDispose(timers) ELSE timers
           /\ disposeCalls' =
                  [ d \in Disposables |->
                      disposeCalls[d]
                        + (IF d \in released THEN 1 ELSE 0)
                        + (IF d = "widget" /\ widget # "null" THEN 1 ELSE 0)
                        + (IF d = "model" /\ model # "null" THEN 1 ELSE 0) ]
    /\ toDispose' = DisposeArray(toDispose)
    /\ widget' = "null"
    /\ model' = "null"
    /\ last' = Handled("dispose", 0, << >>)
    /\ UNCHANGED <<envVars, quickSuggestDelay, currentWord, currentTriggerHandle,
                   fetches, fsmVars, wordVars>>

-----------------------------------------------------------------------------
(* States in which the stand-alone parts are at rest                        *)

Quiet ==
    /\ currentState = InitialState /\ lastCall = NoCall /\ steps = 0
    /\ wordA = undefined /\ wordB = undefined /\ wordRes = <<>>

-----------------------------------------------------------------------------
(* The trigger-character listener under every configuration, model and      *)
(* registry change                                                          *)

TriggerConfigs ==
    { c \in Configs : ~c.quickSuggestions /\ c.quickSuggestionsDelay = Delay(20) }

TriggerInit == Quiet /\ ProgInit(TriggerConfigs, EditorModels, Registries)

TriggerNext ==
    \/ \E cfg \in TriggerConfigs : ChangeConfiguration(cfg)
    \/ \E m \in EditorModels : ChangeModel(m)
    \/ \E m \in EditorModels : ChangeModelMode(m)
    \/ \E id \in ProviderIds : RegisterProvider(id)
    \/ \E i \in 1..MaxProviders : UnregisterProvider(i)
    \/ \E ch \in TriggerChars : TypeCharacter(ch)

SpecTrigger == TriggerInit /\ [][TriggerNext]_vars

-----------------------------------------------------------------------------
(* The word listener under every quick-suggest configuration and cursor     *)
(* change                                                                   *)

QuickConfigs ==
    { c \in Configs : ~c.readOnly /\ c.suggestOnTriggerCharacters }

QuickInit == Quiet /\ ProgInit(QuickConfigs, { "ts" }, { << >> })

QuickNext ==
    \/ \E cfg \in QuickConfigs : ChangeConfiguration(cfg)
    \/ \E e \in CursorEvents : CursorChange(e)
    \/ \E t \in timers : TimerFires(t)

SpecQuick == QuickInit /\ [][QuickNext]_vars

-----------------------------------------------------------------------------
(* The controller: fetches handed to trigger(), their resolution, disposal  *)

CtrlInit == Quiet /\ ProgInit({ DefaultConfig }, { "ts" }, { << "P1" >> })

CtrlConfigs ==
    { DefaultConfig, [ DefaultConfig EXCEPT !.suggestOnTriggerCharacters = FALSE ] }

\* cursor changes on the first line, by keyboard or mouse
CtrlCursorEvents ==
    { e \in CursorEvents :
        e.lineNumber = 1 /\ e.selectionEmpty /\ e.reason = "NotSet" }

CtrlNext ==
    \/ \E cfg \in CtrlConfigs : ChangeConfiguration(cfg)
    \/ \E ch \in TriggerChars : TypeCharacter(ch)
    \/ \E e \in CtrlCursorEvents : CursorChange(e)
    \/ \E t \in timers : TimerFires(t)
    \/ \E i \in 1..MaxFetches : FetchFulfilled(i)
    \/ \E i \in 1..MaxFetches : FetchRejected(i)
    \/ Dispose

SpecCtrl == CtrlInit /\ [][CtrlNext]_vars

-----------------------------------------------------------------------------
(* The program as composed                                                  *)

\* the configurations, registries and cursor changes of the composed program
ComposedConfigs ==
    { DefaultConfig,
      [ DefaultConfig EXCEPT !.suggestOnTriggerCharacters = FALSE ],
      [ DefaultConfig EXCEPT !.quickSuggestions = FALSE ] }

\* plain keyboard edits on the first line, after the first column
ComposedCursorEvents ==
    { e \in CtrlCursorEvents : e.source = "keyboard" /\ e.column >= 2 }

\* no provider, or the provider P1 of "." for ts documents
ComposedRegistries == { << >>, << "P1" >> }

Init == Quiet /\ ProgInit(ComposedConfigs, { "ts" }, ComposedRegistries)

Next ==
    \/ \E cfg \in ComposedConfigs : ChangeConfiguration(cfg)
    \/ \E m \in EditorModels : ChangeModelMode(m)
    \/ Len(registry) = 0 /\ RegisterProvider("P1")
    \/ \E i \in 1..MaxProviders : UnregisterProvider(i)
    \/ \E ch \in TriggerChars : TypeCharacter(ch)
    \/ \E e \in ComposedCursorEvents : CursorChange(e)
    \/ \E t \in timers : TimerFires(t)
    \/ \E i \in 1..MaxFetches : FetchFulfilled(i)
    \/ \E i \in 1..MaxFetches : FetchRejected(i)
    \/ Dispose

Spec == Init /\ [][Next]_vars

-----------------------------------------------------------------------------
(* The state machine on its own, driven by an arbitrary caller              *)

MaxSteps == 5

FsmInit ==
    /\ Quiet
    /\ ProgInit({ DefaultConfig }, { "ts" }, { << >> })

Advance ==
    /\ steps < MaxSteps
    /\ \E message \in Message :
         LET r == advance(currentState, message)
         IN  /\ currentState' = r.next
             /\ lastCall' = [ op |-> "advance", from |-> currentState, message |-> message,
                              outcome |-> r.outcome, returned |-> r.returned ]
    /\ steps' = steps + 1
    /\ UNCHANGED <<wordVars, progVars>>

\* current()
Current ==
    /\ steps < MaxSteps
    /\ lastCall' = [ op |-> "current", from |-> currentState, message |-> undefined,
                     outcome |-> "ok", returned |-> currentState ]
    /\ steps' = steps + 1
    /\ UNCHANGED <<currentState, wordVars, progVars>>

ResetKeeps ==
    /\ steps < MaxSteps
    /\ currentState' = currentState
    /\ lastCall' = [ op |-> "reset", from |-> currentState, message |-> undefined,
                     outcome |-> "ok", returned |-> undefined ]
    /\ steps' = steps + 1
    /\ UNCHANGED <<wordVars, progVars>>

\* reset()
Reset ==
    /\ steps < MaxSteps
    /\ currentState' = "Idle"
    /\ lastCall' = [ op |-> "reset", from |-> currentState, message |-> undefined,
                     outcome |-> "ok", returned |-> undefined ]
    /\ steps' = steps + 1
    /\ UNCHANGED <<wordVars, progVars>>

FsmNext == Advance \/ Current \/ Reset

SpecFsm == FsmInit /\ [][FsmNext]_vars

-----------------------------------------------------------------------------
(* Word.isContinuation on its own, over all pairs of words                  *)

WordInit ==
    /\ wordA \in Words
    /\ wordB \in Words
    /\ wordRes = <<>>
    /\ currentState = InitialState /\ lastCall = NoCall /\ steps = 0
    /\ ProgInit({ DefaultConfig }, { "ts" }, { << >> })

ApplyIsContinuation ==
    /\ wordRes = <<>>
    /\ wordRes' = <<isContinuation(wordA, wordB)>>
    /\ UNCHANGED <<wordA, wordB, fsmVars, progVars>>

WordNext == ApplyIsContinuation

SpecWord == WordInit /\ [][WordNext]_vars

-----------------------------------------------------------------------------
(* The word listener next to a state machine that a caller feeds with the   *)
(* results of the fetches                                                   *)

DrivenInit == Quiet /\ ProgInit({ DefaultConfig }, { "ts" }, { << >> })

DrivenNext ==
    \/ Advance
    \/ \E e \in CtrlCursorEvents : CursorChange(e)
    \/ \E t \in timers : TimerFires(t)

SpecDriven == DrivenInit /\ [][DrivenNext]_vars

-----------------------------------------------------------------------------
(* Claims about the state machine (SpecFsm)                                 *)

InOwnRow(state, message) ==
    /\ state \in DOMAIN fma
    /\ message \in DOMAIN fma[state]

\* C1: for every state and message, a pair defined in the state's own row makes
\* advance return and install exactly that next state, and a pair defined
\* neither in the state's row nor in the wildcard row makes advance fail with
\* the illegal-transition error.
C1_AdvanceFollowsTable ==
    lastCall.op = "advance" =>
        /\ InOwnRow(lastCall.from, lastCall.message) =>
              /\ lastCall.outcome = "ok"
              /\ lastCall.returned = fma[lastCall.from][lastCall.message]
              /\ currentState = fma[lastCall.from][lastCall.message]
        /\ (/\ ~InOwnRow(lastCall.from, lastCall.message)
            /\ lastCall.message \notin DOMAIN fmaWildcard) =>
              lastCall.outcome = "IllegalTransition"

\* C1, the spec's scenario: Idle -Explicit-> LoadingExplict -ResultIncomple->
\* ResultExplicitIncomplete, where WordContinued is then advanced
C1_ScenarioReached ==
    /\ lastCall.op = "advance"
    /\ lastCall.from = "ResultExplicitIncomplete"
    /\ lastCall.message = "WordContinued"

\* C2: from every state, advance(Cancel) and advance(WordEnded) succeed and
\* leave the machine in Idle, and advance(TriggerCharacterTyped) succeeds and
\* leaves the machine in LoadingAuto.
C2_WildcardsFromEveryState ==
    lastCall.op = "advance" =>
        /\ lastCall.message \in { "Cancel", "WordEnded" } =>
              lastCall.outcome = "ok" /\ currentState = "Idle"
        /\ lastCall.message = "TriggerCharacterTyped" =>
              lastCall.outcome = "ok" /\ currentState = "LoadingAuto"

\* C2: Cancel was advanced from ResultExplicitFroozen, a state without a row
C2_Reached ==
    /\ lastCall.op = "advance"
    /\ lastCall.from = "ResultExplicitFroozen"
    /\ lastCall.message = "Cancel"

-----------------------------------------------------------------------------
(* Claims about Word.isContinuation (SpecWord)                              *)

StartsWith(text, prefix) ==
    /\ Len(prefix) <= Len(text)
    /\ \A i \in 1..Len(prefix) : text[i] = prefix[i]

\* C6: a.isContinuation(b) is true if and only if a and b are on the same
\* line, start at the same column, b ends at a greater column than a, and
\* b's text starts with a's text; so it is false for a = b and for every b
\* whose end column does not grow.
C6_IsContinuationIff ==
    wordRes # << >> =>
        /\ wordRes[1] =
              (/\ wordA.line = wordB.line
               /\ wordA.startColumn = wordB.startColumn
               /\ wordB.endColumn > wordA.endColumn
               /\ StartsWith(wordB.value, wordA.value))
        /\ wordA = wordB => wordRes[1] = FALSE
        /\ wordB.endColumn <= wordA.endColumn => wordRes[1] = FALSE

\* C6: a proper continuation, with a non-empty text that grew, was recognised
C6_Witness ==
    /\ wordRes = << TRUE >>
    /\ Len(wordA.value) >= 1
    /\ Len(wordB.value) > Len(wordA.value)

-----------------------------------------------------------------------------
(* Claims about SuggestController.trigger (SpecCtrl)                        *)

Calls(name) == { i \in 1..Len(last.calls) : last.calls[i].call = name }

\* the last handler settled fetch `last.arg`, which had been handed to trigger()
Settled(how) ==
    /\ last.op \in how
    /\ fetches[last.arg].triggered

\* a later fetch had been handed to trigger() before fetch i was settled
Superseded(i) == \E j \in (i + 1)..Len(fetches) : fetches[j].triggered

\* C3: when trigger is called a second time before the first call's fetch has
\* resolved, exactly one result event is published, for the second trigger, and
\* the resolution of the first fetch produces no event or other observable
\* effect.
C3_SupersededFetchDiscarded ==
    /\ (Settled({ "fulfilled", "rejected" }) /\ Superseded(last.arg)) =>
          last.calls = << >>
    /\ (Settled({ "fulfilled" }) /\ ~Superseded(last.arg) /\ last.arg >= 2) =>
          Cardinality(Calls("widget.showSuggestions")) = 1

\* C3: the first of two fetches is fulfilled after the second was handed over
C3_Reached ==
    /\ Settled({ "fulfilled" })
    /\ Superseded(last.arg)

\* C4: every call of trigger publishes a 'triggered' event carrying isAutomatic
\* to the widget before it returns, and a fetch that is not superseded and is
\* fulfilled publishes a 'suggestions available' event afterwards.
C4_TriggeredPublishedSynchronously ==
    /\ \A i \in Calls("trigger") :
          /\ i < Len(last.calls)
          /\ last.calls[i + 1].call = "widget.showTriggered"
          /\ last.calls[i + 1].arg.auto = last.calls[i].arg.auto
    /\ (Settled({ "fulfilled" }) /\ ~Superseded(last.arg)) =>
          Calls("widget.showSuggestions") # {}

\* C4: trigger was called
C4_Reached == Calls("trigger") # {}

\* C5: when the fetch handed to trigger is rejected or cancelled and was not
\* superseded, a 'cancelled' event is published to the widget and the
\* rejection is handled.
C5_RejectionPublishesCancelled ==
    (Settled({ "rejected" }) /\ ~Superseded(last.arg)) =>
        /\ Calls("widget.showDidCancel") # {}
        /\ Calls("unhandled rejection") = {}

\* C5: a fetch that was not superseded is rejected
C5_Reached == Settled({ "rejected" }) /\ ~Superseded(last.arg)

-----------------------------------------------------------------------------
(* Claims about the word listener (SpecQuick)                               *)

NegativeDelayConfigured ==
    /\ config.quickSuggestions
    /\ ~config.quickSuggestionsDelay.nan
    /\ config.quickSuggestionsDelay.n < 0

CursorHandled == last.op = "onDidChangeCursorSelection"

\* a keyboard-driven, plain-edit cursor change with an empty selection
PlainKeyboardEdit(e) ==
    /\ e.selectionEmpty
    /\ e.source = "keyboard"
    /\ e.reason = "NotSet"

Continues(a, b) ==
    /\ a.line = b.line
    /\ a.startColumn = b.startColumn
    /\ b.endColumn > a.endColumn
    /\ StartsWith(b.value, a.value)

\* a step in which the handler saw a plain keyboard edit, with quick
\* suggestions enabled, and a word at the cursor
C9_WordSeen ==
    /\ last'.op = "onDidChangeCursorSelection"
    /\ config.quickSuggestions
    /\ PlainKeyboardEdit(last'.arg.e)
    /\ last'.arg.found # {}

C9_Step ==
    /\ C9_WordSeen =>
          LET word == CHOOSE w \in last'.arg.found : TRUE
          IN  /\ currentWord' = { word }
              /\ word.line = position'.lineNumber
              /\ word.endColumn = position'.column
              /\ IF \E cw \in currentWord : Continues(cw, word)
                 THEN /\ timers' = timers
                      /\ currentTriggerHandle' = currentTriggerHandle
                 ELSE /\ Cardinality(timers') = 1
                      /\ \A t \in timers' :
                            /\ t.handle \notin { u.handle : u \in timers }
                            /\ t.handle = currentTriggerHandle'
                            /\ t.position = position'
                            /\ t.delay = quickSuggestDelay
    /\ last'.op = "timeout" =>
          /\ last'.arg.timer \in timers
          /\ timers' = timers \ { last'.arg.timer }
          /\ Len(fetches') = Len(fetches) + 1
          /\ fetches'[Len(fetches')].triggered
          /\ \E i \in 1..Len(last'.calls) :
                /\ last'.calls[i].call = "trigger"
                /\ last'.calls[i].arg.auto = TRUE
                /\ last'.calls[i].arg.position = last'.arg.timer.position
                /\ last'.calls[i].arg.promise = Len(fetches')
                /\ \A j \in 1..Len(last'.calls) :
                      last'.calls[j].call = "trigger" => j = i

\* C9: for a keyboard-driven, plain-edit cursor change with empty selection and
\* quick suggestions enabled, with a word at the cursor: if the word is not a
\* continuation of the tracked word (or none is tracked), the pending delayed
\* fetch is cancelled and exactly one new one is scheduled, which on firing is
\* handed to trigger with isAutomatic = true; if it is a continuation, none is
\* scheduled and a pending one is left untouched.  Either way the tracked word
\* becomes the new word.
C9_NewWordSchedulesOneFetch == [][C9_Step]_vars

\* C9: a word that is no continuation of the tracked word replaced the pending
\* delayed fetch by a new one
C9_Witness ==
    /\ CursorHandled
    /\ PlainKeyboardEdit(last.arg.e)
    /\ last.arg.found # {}
    /\ \E i \in Calls("clearTimeout") : last.calls[i].arg.pending
    /\ Calls("setTimeout") # {}
    /\ Cardinality(timers) = 1

-----------------------------------------------------------------------------
(* Claims about disposal (SpecCtrl)                                         *)

\* C10: disposing of the controller releases every listener it registered,
\* clears the pending debounce timer so that no fetch is handed to the
\* controller afterwards, and destroys the widget and the model exactly once;
\* a second dispose() releases nothing further.
C10_DisposeReleasesOnce ==
    disposals >= 1 =>
        /\ listeners = {}
        /\ localDispose = NoTypingListeners
        /\ timers = {}
        /\ toDispose = << >>
        /\ widget = "null"
        /\ model = "null"
        /\ \A d \in Disposables : disposeCalls[d] = 1
        /\ last.op \notin { "typing", "timeout" }
        /\ Calls("trigger") = {}

\* C10: dispose() was called a second time, after fetches had been issued
C10_Witness ==
    /\ disposals >= 2
    /\ last.op = "dispose"
    /\ fetches # << >>

-----------------------------------------------------------------------------
(* Claims about the trigger-character listener (SpecTrigger)                *)

Declares(id, ch) ==
    \E cs \in providers[id].triggerCharacters : \E i \in 1..Len(cs) : cs[i] = ch

\* the registered providers applicable to the document that declare ch, in
\* registration order
DeclaringProviders(ch) ==
    SelectSeq(registry,
              LAMBDA id : providers[id].language = editorModel /\ Declares(id, ch))

IndexActive ==
    /\ ~config.readOnly
    /\ editorModel # "none"
    /\ config.suggestOnTriggerCharacters

\* C8: after any sequence of index rebuilds, typing a character c issues
\* exactly one fetch, whose provider subset is exactly the registered,
\* applicable providers that declare c, in registration order; it advances the
\* state machine with TriggerCharacterTyped and hands the fetch to trigger with
\* isAutomatic = true.  A character declared by an applicable provider has a
\* typing listener whenever the index is active.
C8_TypingFetchesFromDeclaringProviders ==
    /\ \A ch \in TriggerChars :
          (IndexActive /\ DeclaringProviders(ch) # << >>) => localDispose[ch] # << >>
    /\ last.op = "typing" =>
          /\ Len(fetches) = last.arg.promise
          /\ Cardinality(Calls("provideSuggestionItems")) = 1
          /\ \A i \in Calls("provideSuggestionItems") :
                /\ last.calls[i].arg.onlyFrom = { DeclaringProviders(last.arg.ch) }
                /\ last.calls[i].arg.position = position
          /\ DeclaringProviders(last.arg.ch) # << >>
          /\ lastCall.op = "advance"
          /\ lastCall.message = "TriggerCharacterTyped"
          /\ lastCall.outcome = "ok"
          /\ currentState = "LoadingAuto"
          /\ Cardinality(Calls("trigger")) = 1
          /\ \A i \in Calls("trigger") :
                /\ last.calls[i].arg.auto = TRUE
                /\ last.calls[i].arg.promise = last.arg.promise
                /\ last.calls[i].arg.position = position
                /\ \A j \in Calls("provideSuggestionItems") \cup Calls("advance") : j < i

\* C8: "." was typed while three providers were registered, two of which
\* declare it for the document, and the fetch was scoped to the two, in order
C8_Witness ==
    /\ last.op = "typing"
    /\ last.arg.ch = "."
    /\ Len(registry) = 3
    /\ Len(DeclaringProviders(".")) = 2
    /\ DeclaringProviders(":") # DeclaringProviders(".")

-----------------------------------------------------------------------------
(* Claims about reset and current (SpecFsm)                                 *)

\* C11: reset() puts the state machine in Idle from every state, and current()
\* returns the current state without changing it; the initial state is Idle.
C11_ResetAndCurrent ==
    /\ lastCall.op = "none" => currentState = "Idle"
    /\ lastCall.op = "reset" => currentState = "Idle"
    /\ lastCall.op = "current" =>
          /\ lastCall.returned = lastCall.from
          /\ currentState = lastCall.from

\* C11: reset() was called in ResultExplicitFroozen, three transitions away
\* from Idle
C11_Witness ==
    /\ lastCall.op = "reset"
    /\ lastCall.from = "ResultExplicitFroozen"

-----------------------------------------------------------------------------
(* Claims about cursor changes that end a word (SpecQuick)                  *)

\* the last handler was a cursor change that found the word gone (a plain
\* keyboard edit with no word ending at the cursor, or a purely numeric token
\* there) or that had a non-empty selection
WordGoneOrSelection ==
    /\ CursorHandled
    /\ last.arg.found = {}
    /\ \/ ~last.arg.e.selectionEmpty
       \/ PlainKeyboardEdit(last.arg.e) /\ quickSuggestDelay >= 0

\* C12: when a cursor change is not a continuation because the word
\* disappeared (no word ends at the cursor, or the token is purely numeric) or
\* the selection is not empty, any delayed automatic fetch that was already
\* scheduled is cancelled, so that it never fires and never reaches trigger,
\* and the widget is told to cancel.
C12_WordGoneCancelsPendingFetch ==
    WordGoneOrSelection =>
        /\ timers = {}
        /\ Calls("widget.cancel") # {}

\* C12: the word disappeared, or the selection became non-empty, after a
\* delayed fetch had been scheduled
C12_Reached ==
    /\ WordGoneOrSelection
    /\ currentTriggerHandle # 0

\* the last handler was a cursor change with a non-empty selection, a source
\* other than the keyboard, or a reason other than a plain edit
NotPlainHandled ==
    /\ CursorHandled
    /\ ~PlainKeyboardEdit(last.arg.e)

\* C13: a cursor change whose selection is non-empty, whose source is not
\* keyboard input, or whose reason is anything other than a plain edit clears
\* the tracked word and cancels the suggestion widget, so that the next
\* qualifying keyboard cursor change on any word is treated as a new word and
\* schedules a fetch.
C13_NotPlainClearsTrackedWord ==
    NotPlainHandled =>
        /\ currentWord = {}
        /\ Calls("widget.cancel") # {}

\* C13: a cursor change that was no plain keyboard edit was handled after a
\* word had been tracked and its fetch scheduled, with quick suggestions on
C13_Reached ==
    /\ NotPlainHandled
    /\ currentTriggerHandle # 0
    /\ quickSuggestDelay >= 0

-----------------------------------------------------------------------------
(* Claims about the word listener and the state machine (SpecDriven)        *)

\* a step in which the cursor change handler saw a plain keyboard edit on a
\* word that continues the tracked word
ContinuationStep ==
    /\ last'.op = "onDidChangeCursorSelection"
    /\ PlainKeyboardEdit(last'.arg.e)
    /\ last'.arg.found # {}
    /\ \E cw \in currentWord : \E word \in last'.arg.found : Continues(cw, word)

C14_Step ==
    /\ (ContinuationStep /\ currentState = "ResultAutoIncomplete") =>
          /\ currentState' = "LoadingAuto"
          /\ lastCall'.op = "advance"
          /\ lastCall'.message = "WordContinued"
          /\ Len(fetches') = Len(fetches) + 1
    /\ (ContinuationStep /\ currentState = "ResultAuto") =>
          /\ currentState' = "ResultAuto"
          /\ fetches' = fetches
          /\ timers' = timers

\* C14: when the prior automatic result was incomplete (ResultAutoIncomplete),
\* a cursor change that continues the tracked word advances the state machine
\* with WordContinued to LoadingAuto and causes a new fetch to be issued; when
\* the prior result was complete (ResultAuto), a continuation leaves the state
\* at ResultAuto and issues no fetch.
C14_ContinuationRefetchesWhenIncomplete == [][C14_Step]_vars

\* C14: the tracked word was continued while the state machine was in
\* ResultAutoIncomplete
C14_Reached ==
    /\ currentState = "ResultAutoIncomplete"
    /\ CursorHandled
    /\ last.arg.found # {}
    /\ last.calls = << >>

-----------------------------------------------------------------------------
(* Claims about index rebuilds (SpecTrigger)                                *)

\* the characters with a registered typing listener
TypingListenerChars == { ch \in TriggerChars : localDispose[ch] # << >> }

\* the characters declared by the registered providers applicable to the
\* current document
DeclaredChars ==
    { ch \in TriggerChars :
        \E i \in 1..Len(registry) :
            /\ providers[registry[i]].language = editorModel
            /\ Declares(registry[i], ch) }

\* C15: after every index rebuild (triggered by a configuration, model,
\* language-mode or provider-registry change, in any order), the set of
\* registered per-character typing listeners is exactly the set of characters
\* declared by the providers applicable to the current document, with no
\* listener surviving from an earlier rebuild; and it is empty whenever the
\* editor is read-only, has no document, or suggestOnTriggerCharacters is
\* disabled.
C15_ListenersMatchDeclaredChars ==
    /\ IndexActive => TypingListenerChars = DeclaredChars
    /\ ~IndexActive => TypingListenerChars = {}

\* C15: a language-mode change from ts to md rebuilt the index while P2, which
\* declares ":" for ts, was registered: the listener of ":" is gone and that
\* of "." is the one of the md provider
C15_Witness ==
    /\ last.op = "onDidChangeModelMode"
    /\ editorModel = "md"
    /\ IndexActive
    /\ \E i \in 1..Len(registry) : registry[i] = "P2"
    /\ TypingListenerChars = { "." }
    /\ localDispose["."] = << "P3" >>

-----------------------------------------------------------------------------
(* Claims about the firing of the delayed fetch (SpecQuick)                 *)

\* the cursor is at the end of the tracked word: since the delayed fetch was
\* scheduled the user has at most continued the word it was scheduled for
AtEndOfTrackedWord ==
    \E cw \in currentWord :
        /\ cw.line = position.lineNumber
        /\ cw.endColumn = position.column

\* C16: when a scheduled delayed fetch fires, it requests suggestions at the
\* cursor position current at the moment of firing, also when the user has
\* continued typing the same word between scheduling and firing.
C16_FetchAtPositionWhenFiring ==
    (last.op = "timeout" /\ AtEndOfTrackedWord) =>
        /\ Calls("provideSuggestionItems") # {}
        /\ \A i \in Calls("provideSuggestionItems") \cup Calls("trigger") :
              last.calls[i].arg.position = position

\* C16: the delayed fetch fired after the word it was scheduled for had been
\* continued
C16_Reached ==
    /\ last.op = "timeout"
    /\ AtEndOfTrackedWord
    /\ \E cw \in currentWord :
          /\ cw.startColumn = last.arg.timer.position.column - 1
          /\ cw.endColumn = last.arg.timer.position.column + 1

-----------------------------------------------------------------------------
(* Claims about the explicit track and failing calls (SpecFsm)              *)

ExplicitTrack ==
    { "LoadingExplict", "ResultExplicit", "ResultExplicitIncomplete",
      "ResultExplicitFroozen", "ResultExplicitEmpty" }

\* C17: explicit results are never cleared by typing or result events: from
\* every explicit-track state, every message other than Cancel, WordEnded and
\* TriggerCharacterTyped either fails or leads to an explicit-track state; in
\* particular ResultExplicit -ResultEmpty-> ResultExplicitFroozen, whereas
\* ResultAuto -ResultEmpty-> Idle.
C17_ExplicitTrackIsKept ==
    lastCall.op = "advance" =>
        /\ (/\ lastCall.from \in ExplicitTrack
            /\ lastCall.message \notin { "Cancel", "WordEnded", "TriggerCharacterTyped" }) =>
              /\ currentState \in ExplicitTrack
              /\ lastCall.outcome = "ok" => lastCall.returned = currentState
        /\ (lastCall.from = "ResultExplicit" /\ lastCall.message = "ResultEmpty") =>
              lastCall.outcome = "ok" /\ currentState = "ResultExplicitFroozen"
        /\ (lastCall.from = "ResultAuto" /\ lastCall.message = "ResultEmpty") =>
              lastCall.outcome = "ok" /\ currentState = "Idle"

\* C17: an empty result arrived while explicit results were shown
C17_Witness ==
    /\ lastCall.op = "advance"
    /\ lastCall.from = "ResultExplicit"
    /\ lastCall.message = "ResultEmpty"
    /\ currentState = "ResultExplicitFroozen"

C18_Step ==
    /\ (/\ steps' = steps + 1
        /\ lastCall'.op = "advance"
        /\ lastCall'.outcome # "ok") =>
          currentState' = currentState
    /\ (/\ steps' = steps + 1
        /\ lastCall.op = "advance"
        /\ lastCall.outcome # "ok"
        /\ lastCall'.op = "current") =>
          lastCall'.returned = lastCall.from

\* C18: whenever advance(message) fails with an error, the current state is
\* left unchanged, so current() after the failed call returns the same state
\* as before it.
C18_FailedAdvanceKeepsState == [][C18_Step]_vars

\* C18: advance failed for a message that neither the row of a state other
\* than Idle nor the wildcard row defines
C18_Witness ==
    /\ lastCall.op = "advance"
    /\ lastCall.outcome = "IllegalTransition"
    /\ lastCall.from = "ResultAuto"
    /\ currentState = "ResultAuto"

-----------------------------------------------------------------------------
(* Claims about the program as composed (Spec)                              *)

\* C19: in the program as composed, over every sequence of editor events the
\* state machine is only ever in Idle or LoadingAuto, the trigger-character
\* listener's advance(TriggerCharacterTyped) never fails, and once LoadingAuto
\* is entered the machine never returns to Idle, whatever fetches resolve or
\* cursor changes follow.
C19_OnlyIdleThenLoadingAuto ==
    /\ [](/\ currentState \in { "Idle", "LoadingAuto" }
          /\ lastCall.op \in { "none", "advance" }
          /\ lastCall.op = "advance" =>
                /\ lastCall.message = "TriggerCharacterTyped"
                /\ lastCall.outcome = "ok"
          /\ last.op = "typing" =>
                /\ \A i \in Calls("advance") : last.calls[i].arg = "ok"
                /\ Calls("trigger") # {})
    /\ [][currentState = "LoadingAuto" => currentState' = "LoadingAuto"]_vars

\* C19: a trigger character was typed in LoadingAuto, a fetch was resolved and
\* the cursor then changed
C19_Witness ==
    /\ lastCall.op = "advance"
    /\ lastCall.from = "LoadingAuto"
    /\ currentState = "LoadingAuto"
    /\ \E i \in 1..Len(fetches) : fetches[i].status = "fulfilled"
    /\ \E i \in 1..Len(fetches) : fetches[i].status = "rejected"
    /\ CursorHandled

\* a step of the typing listener
TypingStep ==
    /\ last'.op = "typing"
    /\ Len(fetches') = Len(fetches) + 1

\* a step in which the delayed fetch fires
TimeoutStep ==
    /\ last'.op = "timeout"
    /\ Len(fetches') = Len(fetches) + 1

\* C20: at every moment the WordListener has at most one pending debounce
\* timer, so that between two consecutive non-continuation cursor changes at
\* most one delayed fetch reaches trigger; a pending timer is not cancelled by
\* a trigger character being typed, so an idle fetch and a trigger-character
\* fetch can both be outstanding at once.
C20_OnePendingTimer ==
    /\ [](/\ Cardinality(timers) <= 1
          /\ \A t \in timers : t.handle = currentTriggerHandle)
    /\ [][/\ TimeoutStep =>
                /\ timers' = {}
                /\ Cardinality(Calls("trigger")') = 1
          /\ TypingStep =>
                /\ timers' = timers
                /\ currentTriggerHandle' = currentTriggerHandle]_vars

\* C20: a trigger character was typed while the debounce timer was pending:
\* the timer is still pending and the trigger-character fetch is outstanding
C20_Witness ==
    /\ last.op = "typing"
    /\ timers # {}
    /\ fetches[last.arg.promise].status = "pending"
    /\ fetches[last.arg.promise].triggered

====
